---- MODULE Spec2Model ----
(***************************************************************************)
(* Model of the Simon game controller of simon.c: the main loop with its   *)
(* state switch, the blocking getButton poll, countDown, playSequence,     *)
(* getSpeed, checkSequence, errorMsg and congratsMsg.                      *)
(*                                                                         *)
(* The C variables state, diff, givenSeq, button (main), keypressed        *)
(* (global) and the locals of checkSequence that live across a blocking    *)
(* getButton call are the state.  History variables (lastWrite, lastDraw,  *)
(* played, inputs, drawn, passes, tracking) record what a handler did.     *)
(***************************************************************************)
EXTENDS Integers, Sequences, FiniteSets

(* ---- model bounds ------------------------------------------------------*)
\* simon.c:87 has MAX_SEQ_LENGTH 64 and simon.c:64 has NUM_KEYS 5; both are
\* scaled down here so that every sequence content can be enumerated.
MAX_SEQ_LENGTH == 3
NUM_KEYS == 3
\* largest difficulty handed to getSpeed in SpecSpeed
MaxDifficulty == 40
\* largest value rand() returns here
MaxRand == 5

(* ---- program constants -------------------------------------------------*)
WELCOME == 0
PLAYSEQ == 1
CHECSEQ == 2
ERROR == 3
CONGRATS == 4

NULL_BUTTON == -1
X == 0

\* breakpoints and delays of getSpeed
SlowLimit == 13
MediumLimit == 26
SlowDelay == 2
MediumDelay == 1
FastDelay == 0

\* a null struct Element pointer, as TI_CAPT_Buttons returns when no pad is touched
NullElement == 0

VARIABLES
  state,        \* main: int state
  diff,         \* main: int diff
  givenSeq,     \* main: int givenSeq[MAX_SEQ_LENGTH]
  beyond,       \* the int-sized memory cell right after givenSeq, when it is no program variable
  layout,       \* which object the build places right after givenSeq
  button,       \* main: volatile int button
  keypressed,   \* global: struct Element* keypressed
  pc,           \* position of the control loop
  level,        \* checkSequence: int level
  currentButton,\* checkSequence: int currentButton
  isSeqCorrect, \* checkSequence: int isSeqCorrect
  lastWrite,    \* history: index and symbol of the store of the latest playSequence
  lastDraw,     \* history: values rand() % NUM_KEYS produced in the latest playSequence
  played,       \* history: the LEDs highlighted by the latest playSequence
  inputs,       \* history: the buttons acquired by the latest checkSequence
  drawn,        \* history: symbols drawn since the latest playSequence at diff 0
  passes,       \* history: fully correct checkSequence passes since then
  tracking,     \* history: no mismatch since then
  spd_d,        \* SpecSpeed: first difficulty
  spd_e,        \* SpecSpeed: second difficulty
  spd_r         \* SpecSpeed: results of getSpeed for spd_d and spd_e

progVars == <<state, diff, givenSeq, beyond, layout, button, keypressed, pc,
              level, currentButton, isSeqCorrect>>
histVars == <<lastWrite, lastDraw, played, inputs, drawn, passes, tracking>>
spdVars == <<spd_d, spd_e, spd_r>>
vars == <<progVars, histVars, spdVars>>

Symbols == 0..(NUM_KEYS - 1)

\* address_list: the pad of each button index (addresses are 1..NUM_KEYS here)
address_list == [i \in 0..(NUM_KEYS - 1) |-> i + 1]

\* what TI_CAPT_Buttons can return: a null pointer or one of the pads
Elements == {NullElement} \cup {address_list[i] : i \in 0..(NUM_KEYS - 1)}

\* the objects that may follow givenSeq in main's frame
Layouts == {"pad", "diff", "state"}

(* ---- getSpeed ----------------------------------------------------------*)
\* getSpeed with the first breakpoint one level late
getSpeed_LateBreak(difficulty) ==
  IF difficulty <= SlowLimit THEN SlowDelay
  ELSE IF difficulty > SlowLimit /\ difficulty < MediumLimit THEN MediumDelay
  ELSE FastDelay

getSpeed(difficulty) ==
  IF difficulty < SlowLimit THEN SlowDelay
  ELSE IF difficulty >= SlowLimit /\ difficulty < MediumLimit THEN MediumDelay
  ELSE FastDelay

(* ---- one iteration of the do-while of getButton ------------------------*)
\* a lookup that returns the pad number instead of the index in address_list
ButtonOf_PadNumber(k) ==
  IF k # NullElement /\ \E i \in 0..(NUM_KEYS - 1) : address_list[i] = k
  THEN k
  ELSE NULL_BUTTON

\* the index i of the pad that matches, NULL_BUTTON when none does
ButtonOf(k) ==
  IF k # NullElement /\ \E i \in 0..(NUM_KEYS - 1) : address_list[i] = k
  THEN CHOOSE i \in 0..(NUM_KEYS - 1) : address_list[i] = k
  ELSE NULL_BUTTON

\* a getButton that polls once and returns whatever it found
GetButtonRepeats_Never(buttonPressed) == FALSE

\* the test of getButton's do-while: poll again
GetButtonRepeats(buttonPressed) == buttonPressed = NULL_BUTTON

(* ---- memory of givenSeq ------------------------------------------------*)
\* sequence[i] as a read: inside the array, or the object placed after it
ReadSeq(seq, i, st, df, bey) ==
  IF i < MAX_SEQ_LENGTH THEN seq[i]
  ELSE IF layout = "diff" THEN df
  ELSE IF layout = "state" THEN st
  ELSE bey

(* ---- initial state: main() after initSys() -----------------------------*)
InitGame ==
  /\ state = WELCOME
  /\ diff = 0
  /\ givenSeq = [i \in 0..(MAX_SEQ_LENGTH - 1) |-> 0]
  /\ beyond = 0
  /\ layout \in Layouts
  /\ button = NULL_BUTTON
  /\ keypressed = NullElement
  /\ pc = "switch"
  /\ level = 0
  /\ currentButton = 0
  /\ isSeqCorrect = 1
  /\ lastWrite = [index |-> -1, sym |-> -1]
  /\ lastDraw = <<>>
  /\ played = <<>>
  /\ inputs = <<>>
  /\ drawn = <<>>
  /\ passes = 0
  /\ tracking = FALSE

Init ==
  /\ InitGame
  /\ spd_d = 0
  /\ spd_e = 0
  /\ spd_r = <<>>

(* ---- WELCOME -----------------------------------------------------------*)
\* case WELCOME up to the first call of getButton
WelcomeEnter ==
  /\ state = WELCOME
  /\ pc = "switch"
  /\ pc' = "getButton"
  /\ UNCHANGED <<state, diff, givenSeq, beyond, layout, button, keypressed,
                 level, currentButton, isSeqCorrect>>
  /\ UNCHANGED histVars
  /\ UNCHANGED spdVars

\* the do-while of case WELCOME without the test for X
WelcomeRepeats_AnyButton(b) == (b = NULL_BUTTON)

\* whether the do-while of case WELCOME repeats for the button b
WelcomeRepeats(b) == (b = NULL_BUTTON) \/ (b # X)

\* one iteration of getButton's loop in case WELCOME and, when getButton
\* returns, the test of the surrounding do-while
WelcomePoll(k) ==
  /\ state = WELCOME
  /\ pc = "getButton"
  /\ keypressed' = k
  /\ IF GetButtonRepeats(ButtonOf(k))
     THEN UNCHANGED <<button, pc>>
     ELSE /\ button' = ButtonOf(k)
          /\ pc' = IF WelcomeRepeats(ButtonOf(k)) THEN "getButton" ELSE "countDown"
  /\ UNCHANGED <<state, diff, givenSeq, beyond, layout,
                 level, currentButton, isSeqCorrect>>
  /\ UNCHANGED histVars
  /\ UNCHANGED spdVars

(* ---- countDown ---------------------------------------------------------*)
countDown ==
  /\ state = WELCOME
  /\ pc = "countDown"
  /\ state' = PLAYSEQ
  /\ pc' = "switch"
  /\ UNCHANGED <<diff, givenSeq, beyond, layout, button, keypressed,
                 level, currentButton, isSeqCorrect>>
  /\ UNCHANGED histVars
  /\ UNCHANGED spdVars

(* ---- playSequence ------------------------------------------------------*)
\* what rand() can return
RandValues == 0..MaxRand

\* a draw that forgets the modulo
randPad_NoModulo(x) == x

\* randPad = rand() % NUM_KEYS
randPad(x) == x % NUM_KEYS

\* playSequence storing the new symbol one place early
StoreIndex_Previous(lvl) == IF lvl > 0 THEN lvl - 1 ELSE 0

\* playSequence storing every new symbol at the start of the array
StoreIndex_First(lvl) == 0

\* the index playSequence stores the new symbol at
StoreIndex(lvl) == lvl

\* a playback loop that shows the new symbol only
PlaybackIndices_TailOnly(lvl) == <<lvl>>

\* the indices the playback loop visits, in order
PlaybackIndices(lvl) == [n \in 1..(lvl + 1) |-> n - 1]

\* the delay of the two swDelay calls of one playback iteration
PlaybackDelay(lvl) == getSpeed(lvl)

playSequence(r) ==
  /\ state = PLAYSEQ
  /\ pc = "switch"
  /\ LET lvl == diff
         idx == StoreIndex(lvl)
         inArray == idx < MAX_SEQ_LENGTH
         \* memory right after sequence[level] = randPad
         seqW == IF inArray THEN [givenSeq EXCEPT ![idx] = r] ELSE givenSeq
         beyW == IF ~inArray /\ layout = "pad" THEN r ELSE beyond
         diffW == IF ~inArray /\ layout = "diff" THEN r ELSE diff
         stateW == IF ~inArray /\ layout = "state" THEN r ELSE state
         order == PlaybackIndices(lvl)
     IN  /\ givenSeq' = seqW
         /\ beyond' = beyW
         /\ diff' = diffW
         /\ state' = CHECSEQ
         /\ lastWrite' = [index |-> idx, sym |-> r]
         /\ lastDraw' = <<r>>
         /\ played' = [n \in 1..Len(order) |->
                         [index |-> order[n],
                          sym |-> ReadSeq(seqW, order[n], stateW, diffW, beyW),
                          tier |-> lvl,
                          on |-> PlaybackDelay(lvl),
                          off |-> PlaybackDelay(lvl)]]
         /\ IF lvl = 0
            THEN /\ drawn' = <<r>>
                 /\ passes' = 0
                 /\ tracking' = TRUE
            ELSE /\ drawn' = IF tracking THEN Append(drawn, r) ELSE drawn
                 /\ UNCHANGED <<passes, tracking>>
  /\ UNCHANGED <<layout, button, keypressed, pc, level, currentButton,
                 isSeqCorrect, inputs>>
  /\ UNCHANGED spdVars

(* ---- checkSequence -----------------------------------------------------*)
\* checkSequence up to the first call of getButton
CheckSequenceEnter ==
  /\ state = CHECSEQ
  /\ pc = "switch"
  /\ level' = diff
  /\ currentButton' = 0
  /\ isSeqCorrect' = 1
  /\ inputs' = <<>>
  /\ pc' = "getButton"
  /\ UNCHANGED <<state, diff, givenSeq, beyond, layout, button, keypressed>>
  /\ UNCHANGED <<lastWrite, lastDraw, played, drawn, passes, tracking>>
  /\ UNCHANGED spdVars

\* a comparison that lets a smaller button index through
IsMismatch_Greater(b, stored) == b > stored

\* the test  button != sequence[currentButton]
IsMismatch(b, stored) == b # stored

\* whether the for loop goes on after ++currentButton
LoopContinues(cb, lvl) == cb <= lvl

\* an if/else that replays the level after a wrong input
AfterLoop_Replay(correct, lvl, df) ==
  IF correct # 0
  THEN IF lvl < MAX_SEQ_LENGTH
       THEN [state |-> PLAYSEQ, diff |-> lvl + 1, level |-> lvl + 1]
       ELSE [state |-> CONGRATS, diff |-> df, level |-> lvl]
  ELSE [state |-> PLAYSEQ, diff |-> df, level |-> lvl]

\* the if/else after the loop: the new state, diff and level
AfterLoop(correct, lvl, df) ==
  IF correct # 0
  THEN IF lvl < MAX_SEQ_LENGTH
       THEN [state |-> PLAYSEQ, diff |-> lvl + 1, level |-> lvl + 1]
       ELSE [state |-> CONGRATS, diff |-> df, level |-> lvl]
  ELSE [state |-> ERROR, diff |-> df, level |-> lvl]

\* one iteration of getButton's loop inside checkSequence and, when
\* getButton returns, the rest of the loop body and of the function
CheckPoll(k) ==
  /\ state = CHECSEQ
  /\ pc = "getButton"
  /\ keypressed' = k
  /\ IF GetButtonRepeats(ButtonOf(k))
     THEN /\ UNCHANGED <<state, diff, pc, level, currentButton, isSeqCorrect>>
          /\ UNCHANGED histVars
     ELSE LET b == ButtonOf(k)
              stored == ReadSeq(givenSeq, currentButton, state, diff, beyond)
              entry == [pos |-> currentButton, button |-> b, stored |-> stored]
              wrong == IsMismatch(b, stored)
              cb == IF wrong THEN currentButton ELSE currentButton + 1
              ok == IF wrong THEN 0 ELSE isSeqCorrect
              done == wrong \/ ~LoopContinues(cb, level)
              out == AfterLoop(ok, level, diff)
              pass == done /\ ok # 0
          IN  /\ inputs' = Append(inputs, entry)
              /\ currentButton' = cb
              /\ isSeqCorrect' = ok
              /\ IF done
                 THEN /\ state' = out.state
                      /\ diff' = out.diff
                      /\ level' = out.level
                      /\ pc' = "switch"
                 ELSE UNCHANGED <<state, diff, level, pc>>
              /\ IF tracking /\ done /\ (wrong \/ passes >= MAX_SEQ_LENGTH)
                 THEN /\ tracking' = FALSE
                      /\ drawn' = <<>>
                      /\ passes' = 0
                 ELSE /\ passes' = IF tracking /\ pass THEN passes + 1 ELSE passes
                      /\ UNCHANGED <<tracking, drawn>>
              /\ UNCHANGED <<lastWrite, lastDraw, played>>
  /\ UNCHANGED <<givenSeq, beyond, layout, button>>
  /\ UNCHANGED spdVars

(* ---- errorMsg and congratsMsg ------------------------------------------*)
\* errorMsg going straight back to the sequence
errorMsg_Replay ==
  /\ state = ERROR
  /\ pc = "switch"
  /\ state' = PLAYSEQ
  /\ UNCHANGED <<diff, givenSeq, beyond, layout, button, keypressed, pc,
                 level, currentButton, isSeqCorrect>>
  /\ UNCHANGED histVars
  /\ UNCHANGED spdVars

errorMsg ==
  /\ state = ERROR
  /\ pc = "switch"
  /\ state' = WELCOME
  /\ UNCHANGED <<diff, givenSeq, beyond, layout, button, keypressed, pc,
                 level, currentButton, isSeqCorrect>>
  /\ UNCHANGED histVars
  /\ UNCHANGED spdVars

\* congratsMsg without the assignment to *state
congratsMsg_NoExit ==
  /\ state = CONGRATS
  /\ pc = "switch"
  /\ UNCHANGED vars

congratsMsg ==
  /\ state = CONGRATS
  /\ pc = "switch"
  /\ state' = WELCOME
  /\ UNCHANGED <<diff, givenSeq, beyond, layout, button, keypressed, pc,
                 level, currentButton, isSeqCorrect>>
  /\ UNCHANGED histVars
  /\ UNCHANGED spdVars

(* ---- the control loop of main ------------------------------------------*)
Next ==
  \/ WelcomeEnter
  \/ \E k \in Elements : WelcomePoll(k)
  \/ countDown
  \/ \E x \in RandValues : playSequence(randPad(x))
  \/ CheckSequenceEnter
  \/ \E k \in Elements : CheckPoll(k)
  \/ errorMsg
  \/ congratsMsg

Spec == Init /\ [][Next]_vars

\* a pad is detected while checkSequence polls
CheckPress == \E k \in Elements \ {NullElement} : CheckPoll(k)

\* the loop of main never stops running its handlers, and the player keeps
\* touching pads: X while the welcome screen waits, some pad during a check
Fairness ==
  /\ WF_vars(WelcomeEnter)
  /\ WF_vars(WelcomePoll(address_list[X]))
  /\ WF_vars(countDown)
  /\ WF_vars(\E x \in RandValues : playSequence(randPad(x)))
  /\ WF_vars(CheckSequenceEnter)
  /\ WF_vars(CheckPress)
  /\ WF_vars(errorMsg)
  /\ WF_vars(congratsMsg)

SpecLive == Init /\ [][Next]_vars /\ Fairness

(* ---- getSpeed on its own -----------------------------------------------*)
InitSpeed ==
  /\ InitGame
  /\ spd_d \in 0..MaxDifficulty
  /\ spd_e \in 0..MaxDifficulty
  /\ spd_r = <<>>

ApplySpeed ==
  /\ spd_r = <<>>
  /\ spd_r' = <<getSpeed(spd_d), getSpeed(spd_e)>>
  /\ UNCHANGED <<spd_d, spd_e>>
  /\ UNCHANGED progVars
  /\ UNCHANGED histVars

NextSpeed == ApplySpeed

SpecSpeed == InitSpeed /\ [][NextSpeed]_vars

(* ---- the game state of the specification ------------------------------*)
GameState ==
  IF state = WELCOME
  THEN IF pc = "countDown" THEN "Countdown" ELSE "Welcome"
  ELSE IF state = PLAYSEQ THEN "PlaySequence"
  ELSE IF state = CHECSEQ THEN "CheckSequence"
  ELSE IF state = ERROR THEN "Error"
  ELSE IF state = CONGRATS THEN "Congrats"
  ELSE "Invalid"

TypeOK ==
  /\ state \in {WELCOME, PLAYSEQ, CHECSEQ, ERROR, CONGRATS}
  /\ diff \in 0..MAX_SEQ_LENGTH
  /\ givenSeq \in [0..(MAX_SEQ_LENGTH - 1) -> Symbols]
  /\ pc \in {"switch", "getButton", "countDown"}
  /\ button \in {NULL_BUTTON} \cup Symbols
  /\ keypressed \in Elements
  /\ Len(inputs) <= MAX_SEQ_LENGTH + 1
  /\ Len(drawn) <= MAX_SEQ_LENGTH + 1

(* ======================================================================= *)
(* Properties                                                              *)
(* ======================================================================= *)

\* the step that ends a checkSequence pass
PassEnds == state = CHECSEQ /\ pc = "getButton" /\ state' # CHECSEQ

\* C1: the index playSequence stores at and every index read by the playback
\* and by checkSequence lies in 0..MAX_SEQ_LENGTH-1.
C1_IndicesInRange ==
  /\ lastWrite.index < MAX_SEQ_LENGTH
  /\ \A n \in 1..Len(played) : played[n].index \in 0..(MAX_SEQ_LENGTH - 1)
  /\ \A n \in 1..Len(inputs) : inputs[n].pos \in 0..(MAX_SEQ_LENGTH - 1)

\* C2: a fully correct pass at Difficulty d goes to PlaySequence with
\* Difficulty d+1 when d+1 < Capacity and to Congrats otherwise, so
\* PlaySequence is never entered with Difficulty = Capacity.
C2_CapacityBoundary ==
  [][(PassEnds /\ isSeqCorrect' # 0) =>
        /\ IF level + 1 < MAX_SEQ_LENGTH
           THEN diff' = level + 1 /\ state' = PLAYSEQ
           ELSE state' = CONGRATS
        /\ ~(state' = PLAYSEQ /\ diff' = MAX_SEQ_LENGTH)]_vars

\* C3: when the machine goes from Error or Congrats back to Welcome,
\* Difficulty is 0, so the first playSequence of every game stores at index 0
\* and plays back one symbol.
C3_ResetOnWelcome ==
  [][((state = ERROR \/ state = CONGRATS) /\ state' = WELCOME) => diff' = 0]_vars

\* C4: checkSequence compares the inputs in order from position 0; at the
\* first input that differs from the stored symbol it goes to Error with
\* Difficulty unchanged, and no further input is acquired in that pass.
C4_MismatchShortCircuit ==
  [][/\ (state = CHECSEQ /\ pc = "getButton" /\ inputs' # inputs) =>
          LET e == inputs'[Len(inputs')]
          IN  /\ Len(inputs') = Len(inputs) + 1
              /\ e.pos = Len(inputs)
              /\ e.pos <= level
              /\ \A n \in 1..Len(inputs) : inputs[n].button = inputs[n].stored
              /\ (e.button # e.stored =>
                    /\ state' = ERROR
                    /\ pc' = "switch"
                    /\ diff' = diff)
     /\ (state = ERROR => inputs' = inputs /\ keypressed' = keypressed)]_vars

C4_Witness ==
  /\ state = ERROR
  /\ level = 2
  /\ Len(inputs) = 2
  /\ inputs[2].button # inputs[2].stored

\* C5: a pass at Difficulty d ends in PlaySequence or Congrats exactly when
\* d+1 inputs were acquired and input i equals the stored symbol at position
\* i for every i in 0..d; otherwise it ends in Error.
C5_PassIffAllCorrect ==
  [][PassEnds =>
        LET allCorrect ==
              /\ Len(inputs') = diff + 1
              /\ \A n \in 1..Len(inputs') :
                    /\ inputs'[n].pos = n - 1
                    /\ inputs'[n].button = ReadSeq(givenSeq, n - 1, state, diff, beyond)
        IN  /\ level = diff
            /\ (state' = PLAYSEQ \/ state' = CONGRATS) <=> allCorrect
            /\ state' = ERROR <=> ~allCorrect]_vars

C5_Witness ==
  /\ state = PLAYSEQ
  /\ diff = 2
  /\ Len(inputs) = 2
  /\ \A n \in 1..2 : inputs[n].button = givenSeq[n - 1]
  /\ givenSeq[0] # givenSeq[1]

\* C6: a playSequence step at Difficulty d draws one symbol, stores it at
\* index d, highlights the stored symbols at indices 0..d in that order, each
\* paced by getSpeed(d), and moves to CheckSequence without acquiring input.
C6_PlaySequenceStep ==
  [][state = PLAYSEQ =>
        /\ state' = CHECSEQ
        /\ pc' = "switch"
        /\ Len(lastDraw') = 1
        /\ lastWrite' = [index |-> diff, sym |-> lastDraw'[1]]
        /\ (diff < MAX_SEQ_LENGTH => givenSeq'[diff] = lastDraw'[1])
        /\ Len(played') = diff + 1
        /\ \A n \in 1..Len(played') :
              /\ played'[n].index = n - 1
              /\ played'[n].sym = IF n - 1 = diff THEN lastDraw'[1] ELSE givenSeq[n - 1]
              /\ played'[n].tier = diff
              /\ played'[n].on = getSpeed(diff)
              /\ played'[n].off = getSpeed(diff)
        /\ inputs' = inputs
        /\ keypressed' = keypressed]_vars

C6_Witness ==
  /\ state = CHECSEQ
  /\ pc = "switch"
  /\ Len(played) = 3
  /\ played[1].sym # played[2].sym
  /\ played[2].sym # played[3].sym

\* C7: after N consecutive fully correct passes from Difficulty 0 (N within
\* capacity) Difficulty is N and the N stored symbols are the symbols drawn
\* at the N playSequence steps, in draw order.
C7_RoundTrip ==
  (tracking /\ state = PLAYSEQ) =>
     /\ passes <= MAX_SEQ_LENGTH
     /\ diff = passes
     /\ Len(drawn) = passes
     /\ \A n \in 1..passes : givenSeq[n - 1] = drawn[n]

C7_Witness ==
  /\ tracking
  /\ state = PLAYSEQ
  /\ passes = MAX_SEQ_LENGTH
  /\ drawn[1] # drawn[2]

\* C8: getSpeed returns 2 for 0 <= d < 13, 1 for 13 <= d < 26 and 0 for
\* d >= 26; the delay never grows with d and changes exactly at 13 and 26.
C8_SpeedTiers ==
  spd_r # <<>> =>
     /\ (spd_d >= 0 /\ spd_d < 13 => spd_r[1] = 2)
     /\ (spd_d >= 13 /\ spd_d < 26 => spd_r[1] = 1)
     /\ (spd_d >= 26 => spd_r[1] = 0)
     /\ (spd_d <= spd_e => spd_r[1] >= spd_r[2])
     /\ (spd_e = spd_d + 1 => (spd_r[1] # spd_r[2] <=> (spd_e = 13 \/ spd_e = 26)))

C8_Witness ==
  /\ spd_d = 25
  /\ spd_e = 26
  /\ spd_r = <<1, 0>>

\* C9: in Welcome a poll without input or with a button other than X leaves
\* state, Difficulty and sequence unchanged and the poll repeats; the X button
\* alone leads on, to the countdown and from there to PlaySequence.
C9_WelcomeWaitsForStart ==
  [][/\ (GameState = "Welcome" /\ pc = "getButton") =>
          IF keypressed' = address_list[X]
          THEN GameState' = "Countdown" /\ UNCHANGED <<diff, givenSeq>>
          ELSE pc' = "getButton" /\ UNCHANGED <<state, diff, givenSeq>>
     /\ (GameState = "Welcome" /\ pc = "switch") =>
          GameState' = "Welcome" /\ UNCHANGED <<state, diff, givenSeq>>
     /\ GameState = "Countdown" =>
          GameState' = "PlaySequence" /\ UNCHANGED <<diff, givenSeq>>]_vars

C9_Witness ==
  /\ GameState = "Welcome"
  /\ pc = "getButton"
  /\ keypressed = address_list[1]
  /\ button = 1
  /\ diff = 0

\* the transitions of the game state machine
Edges ==
  { <<"Welcome", "Countdown">>, <<"Countdown", "PlaySequence">>,
    <<"PlaySequence", "CheckSequence">>, <<"CheckSequence", "PlaySequence">>,
    <<"CheckSequence", "Error">>, <<"CheckSequence", "Congrats">>,
    <<"Error", "Welcome">>, <<"Congrats", "Welcome">> }

C11_NeverStuck ==
  /\ [][(state = ERROR \/ state = CONGRATS) =>
          /\ state' = WELCOME
          /\ keypressed' = keypressed
          /\ inputs' = inputs]_vars
  /\ (GameState = "Error") ~> (GameState = "Welcome")
  /\ (GameState = "Congrats") ~> (GameState = "Welcome")
  /\ (GameState = "Countdown") ~> (GameState = "PlaySequence")
  /\ (GameState = "PlaySequence") ~> (GameState = "CheckSequence")
  /\ (GameState = "CheckSequence") ~> (GameState \in {"PlaySequence", "Error", "Congrats"})
  /\ (GameState = "Welcome") ~> (GameState = "Countdown")
  /\ ([]<>(GameState = "Welcome") \/ []<>(GameState = "PlaySequence"))

C11_Witness ==
  /\ state = WELCOME
  /\ pc = "switch"
  /\ isSeqCorrect = 1
  /\ Len(inputs) = level + 1
  /\ level = MAX_SEQ_LENGTH

C13_DifficultyFrame ==
  [][/\ diff' >= 0
     /\ (PassEnds /\ isSeqCorrect' # 0 /\ level + 1 < MAX_SEQ_LENGTH) => diff' = diff + 1
     /\ (state = ERROR \/ state = CONGRATS) => diff' = 0
     /\ ~(PassEnds /\ isSeqCorrect' # 0 /\ level + 1 < MAX_SEQ_LENGTH)
          /\ ~(state = ERROR \/ state = CONGRATS) => diff' = diff]_vars

\* C14: a playSequence step at Difficulty d leaves the symbols at the indices
\* other than d unchanged, and the playback of round d+1 is the playback of
\* round d followed by one more symbol.
C14_AppendOnly ==
  [][state = PLAYSEQ =>
        /\ \A i \in 0..(MAX_SEQ_LENGTH - 1) : i # diff => givenSeq'[i] = givenSeq[i]
        /\ (lastWrite.index + 1 = diff =>
              /\ Len(played') = Len(played) + 1
              /\ \A n \in 1..Len(played) : played'[n].index = played[n].index
                                         /\ played'[n].sym = played[n].sym)]_vars

C14_Witness ==
  /\ state = CHECSEQ
  /\ pc = "switch"
  /\ lastWrite.index = 2
  /\ Len(played) = 3
  /\ Len(inputs) = 2
  /\ isSeqCorrect = 1
  /\ played[1].sym # played[2].sym

\* C15: a player who repeats every sequence correctly reaches Congrats with
\* the pass on the sequence of length MAX_SEQ_LENGTH, the MAX_SEQ_LENGTH-th
\* correct pass, and no store or read went outside the sequence on the way.
C15_WinAtCapacity ==
  state = CONGRATS =>
     /\ level + 1 = MAX_SEQ_LENGTH
     /\ Len(inputs) = MAX_SEQ_LENGTH
     /\ lastWrite.index < MAX_SEQ_LENGTH
     /\ \A n \in 1..Len(inputs) : inputs[n].pos < MAX_SEQ_LENGTH

\* C16: every symbol that is played back or compared is a symbol index in
\* 0..NUM_KEYS-1, so the lookup in ledMask stays in range.
C16_SymbolsValid ==
  /\ \A n \in 1..Len(played) : played[n].sym \in 0..(NUM_KEYS - 1)
  /\ \A n \in 1..Len(inputs) : inputs[n].stored \in 0..(NUM_KEYS - 1)
  /\ \A i \in 0..(MAX_SEQ_LENGTH - 1) : givenSeq[i] \in 0..(NUM_KEYS - 1)

C16_Witness ==
  /\ state = CHECSEQ
  /\ pc = "getButton"
  /\ Len(played) = 3
  /\ played[3].sym = NUM_KEYS - 1
  /\ Len(inputs) = 2
  /\ inputs[1].stored = NUM_KEYS - 1

\* C17: checkSequence leaves the stored sequence alone and draws nothing, and
\* the symbol an input is compared against at position i is the symbol the
\* preceding playSequence highlighted at position i.
C17_ComparesWhatWasPlayed ==
  [][state = CHECSEQ =>
        /\ givenSeq' = givenSeq
        /\ lastDraw' = lastDraw
        /\ played' = played
        /\ \A n \in 1..Len(inputs') :
              /\ n <= Len(played)
              /\ inputs'[n].pos = played[n].index
              /\ inputs'[n].stored = played[n].sym]_vars

====
